---- MODULE Spec2Model ----
(***************************************************************************)
(* Model of poll_tg.js: the poll / dedup / enrich / deliver loop of the    *)
(* Telegram announcer, run by Node's single-threaded event loop.           *)
(*                                                                         *)
(* One step of the model is what the event loop runs between two awaits    *)
(* (a network response or a timer firing, and the synchronous code after   *)
(* it).  `running` names the poll() invocation that is executing           *)
(* synchronous code, so that no callback or timer is served meanwhile.     *)
(* The process can be killed at any point, also in the middle of a file    *)
(* write, and be started again.                                            *)
(***************************************************************************)
EXTENDS Integers, Sequences, FiniteSets, TLC

\* ---- bounds of the model -------------------------------------------------
MaxId         == 3   \* identifiers 1..MaxId, a larger identifier is a newer item
MaxFeed       == 2   \* items in one feed response
MaxPolls      == 3   \* poll() invocations over the whole run
MaxTasks      == 2   \* poll() invocations in progress at the same time
MaxRestarts   == 1   \* process kills followed by a start
MaxRetry      == 1   \* rate-limit responses within one sendWithImage call
MaxRetryAfter == 1   \* largest retry_after (seconds) of a rate-limit response

\* ---- program constants ---------------------------------------------------
COOLDOWN_MS   == 1000
GATEWAYS      == 4

Ids   == 1 .. MaxId
Tasks == 1 .. MaxTasks

\* Items of the feed.  Item 2 is a transaction without tokenInfo; item 3 has a
\* tokenInfo without a usable uri; only item 1 has a numeric block_time.
HasTokenInfo(x) == x # 2
HasValidUri(x)  == x = 1
BlockTime(x)    == IF x = 1 THEN 101 ELSE 0

Range(s) == { s[i] : i \in 1 .. Len(s) }

RECURSIVE Reverse(_)
Reverse(s) == IF s = << >> THEN << >> ELSE Append(Reverse(Tail(s)), Head(s))

\* txns.slice().reverse()
LoopOrderBuggy(txns) == txns    \* faulty variant: the reverse() is missing
LoopOrder(txns) == Reverse(txns)

\* Feed responses: the newest-first lists of at most MaxFeed distinct items.
IsDescending(s) == \A i \in 1 .. Len(s) - 1 : s[i] > s[i + 1]
FeedLists == { s \in UNION { [1 .. n -> Ids] : n \in 0 .. MaxFeed } : IsDescending(s) }

\* ---- processed.json ------------------------------------------------------
\* The file holds the text of a JSON array: `ids` are the elements written so
\* far, `closed` tells whether the closing bracket was written.
NoFile == [exists |-> FALSE, ids |-> << >>, closed |-> FALSE]

\* processed.add(id) on a JS Set, which keeps insertion order
SetAdd(set, x) == IF x \in Range(set) THEN set ELSE Append(set, x)

\* JSON.stringify([...processed]) written by a completed fs.writeFileSync
Stringify(set) == [exists |-> TRUE, ids |-> set, closed |-> TRUE]

\* What a writeFileSync of `set` can leave behind when the process dies in it:
\* the file is truncated on open and then filled, so any proper prefix of the
\* text (no closing bracket), or the whole text.
TornWrites(set) ==
    { [exists |-> TRUE, ids |-> SubSeq(set, 1, n), closed |-> FALSE] : n \in 0 .. Len(set) }
        \cup { Stringify(set) }

RECURSIVE AddAll(_, _)
AddAll(set, arr) == IF arr = << >> THEN set ELSE AddAll(SetAdd(set, Head(arr)), Tail(arr))

\* Lines 28-34: JSON.parse throws on a text that is no complete JSON value, and
\* the catch leaves the set empty.
LoadProcessed(f) ==
    IF f.exists /\ f.closed THEN AddAll(<< >>, f.ids) ELSE << >>

\* ---- the chat endpoint ---------------------------------------------------
\* A response to sendPhoto / sendMessage: code 200 is success, any other code
\* a failure, code 0 a network error without a response; retry_after = 0
\* stands for a response that carries no retry_after.
PostResponses ==
    { [code |-> c, retry_after |-> 0] : c \in {200, 400, 0} }
        \cup { [code |-> 429, retry_after |-> n] : n \in 1 .. MaxRetryAfter }

\* Lines 60 and 84: resp?.error_code === 429 && resp.parameters?.retry_after
IsRateLimited(resp) == resp.code = 429 /\ resp.retry_after # 0

\* Lines 61 and 85: (retry_after + 1) * 1000
BackoffMsBuggy(resp) == resp.retry_after * 1000    \* faulty variant: no extra second
BackoffMs(resp) == (resp.retry_after + 1) * 1000

\* Lines 80-92: where sendWithImage goes after the answer to a photo post
\* (faulty variant: the photo post is repeated instead of the fallback)
AfterPhotoBuggy(resp) ==
    IF resp.code = 200 THEN "mark" ELSE IF IsRateLimited(resp) THEN "photoSleep" ELSE "photo"
AfterPhoto(resp) ==
    IF resp.code = 200 THEN "mark" ELSE IF IsRateLimited(resp) THEN "photoSleep" ELSE "text"

\* Lines 56-67: where sendMessage goes after the answer to a text post
\* (faulty variant: a failure that is no rate limit is thrown on, which ends
\* the invocation)
AfterTextBuggy(resp) ==
    IF resp.code = 200 THEN "mark" ELSE IF IsRateLimited(resp) THEN "textSleep" ELSE "idle"
AfterText(resp) ==
    IF resp.code = 200 THEN "mark" ELSE IF IsRateLimited(resp) THEN "textSleep" ELSE "mark"

\* ---- enrichment ----------------------------------------------------------
\* Bodies a metadata URL can answer with: an object whose image is an http
\* URL, an object whose image is another string, an object (or text) without
\* image, the JSON value null, an object whose image is not a string.
MetaBodies == {"http", "other", "none", "null", "badimg"}

\* Lines 117-134: the gateways are tried in order, the first answer is
\* returned; when all fail the raw URI is tried and its failure is thrown.
\* firstUp is the first gateway that answers (0: none), rawUp tells whether the
\* raw URI answers, body is the answer.
FetchMetadata(firstUp, rawUp, body) ==
    IF firstUp \in 1 .. GATEWAYS THEN [threw |-> FALSE, data |-> body]
    ELSE IF rawUp THEN [threw |-> FALSE, data |-> body]
    ELSE [threw |-> TRUE, data |-> "none"]

\* Lines 187-189: a throw of fetchMetadata leaves meta = {}
MetaOf(r) == IF r.threw THEN "none" ELSE r.data

\* Lines 191-192: meta.image of null, and startsWith of a value that is no
\* string, throw a TypeError
ImageThrows(meta) == meta \in {"null", "badimg"}
ImageUrl(meta) == meta = "http"

\* Lines 136-147: the answers of the identity service
NoCreator   == [username |-> "", followers |-> 0, smartFollowers |-> 0]
SomeCreator == [username |-> "u", followers |-> 5, smartFollowers |-> 1]
CreatorResponses == {"fail", "empty", "full"}
FetchCreatorInfo(resp) == IF resp = "full" THEN SomeCreator ELSE NoCreator

\* Lines 149-160: the answers of the reputation service
EthosResponses == {"fail", "noscore", "score"}
FetchEthos(resp) == IF resp = "score" THEN 7 ELSE 0

\* Lines 199-207: the caption is made of the item's fields and the lookups
Caption(x, info, ethos) == [id |-> x, info |-> info, ethos |-> ethos]

\* ---- state ---------------------------------------------------------------
VARIABLES
    processed,   \* the in-memory Set, in insertion order
    file,        \* processed.json
    tsFile,      \* last_block_time.txt (0: absent)
    phase,       \* "boot": first poll awaited; "timer": setInterval set;
                 \* "down": killed; "threw": ended by an uncaught exception
    task,        \* the poll() invocations in progress
    running,     \* the invocation running synchronous code (0: event loop idle)
    announced,   \* chat side: successful posts per item
    lastFeed,    \* what the latest fetch of this process returned
    polls,       \* poll() invocations started so far
    restarts,    \* process starts after the first
    prev         \* the in-memory set when the process last died

vars == << processed, file, tsFile, phase, task, running, announced, lastFeed,
           polls, restarts, prev >>

NoFeed == [ok |-> FALSE, list |-> << >>]

IdleTask ==
    [pc |-> "idle", feed |-> "", fetched |-> << >>, same |-> FALSE, todo |-> << >>, cur |-> 0,
     calls |-> {}, image |-> FALSE, info |-> NoCreator, ethos |-> 0, caption |-> << >>,
     attempts |-> << >>, slept |-> 0, failed |-> FALSE, sent |-> << >>]

\* poll() up to its first await: the GET of the feed is in flight
FetchingTask == [IdleTask EXCEPT !.pc = "fetch"]

Busy(t) == task[t].pc # "idle"

Init ==
    /\ file = NoFile
    /\ processed = LoadProcessed(file)
    /\ tsFile = 0
    /\ phase = "boot"
    /\ task = [t \in Tasks |-> IF t = 1 THEN FetchingTask ELSE IdleTask]
    /\ running = 0
    /\ announced = [x \in Ids |-> 0]
    /\ lastFeed = NoFeed
    /\ polls = 1
    /\ restarts = 0
    /\ prev = {}

\* ---- the feed ------------------------------------------------------------
\* Answers of the feed: an array of items, a body without such an array, a 5xx
\* status, another failure (4xx, network error, timeout).
FeedResponses ==
    { [kind |-> "ok", list |-> l] : l \in FeedLists }
        \cup { [kind |-> k, list |-> << >>] : k \in {"invalid", "5xx", "error"} }

\* Lines 97-115: what fetchTxns returns
FetchTxns(resp) == IF resp.kind = "ok" THEN resp.list ELSE << >>

\* Lines 106-109: the cooldown before returning
\* (faulty variant: every failed request is followed by the cooldown)
HasCooldownBuggy(resp) == resp.kind \in {"5xx", "error"}
HasCooldown(resp) == resp.kind = "5xx"

\* ---- persistence ---------------------------------------------------------
\* Lines 164-170, as one synchronous call
\* (faulty variant: the identifier is added, the file is not written)
MarkProcessedUnsaved(x) ==
    /\ processed' = SetAdd(processed, x)
    /\ file' = file
    /\ tsFile' = tsFile
\* (faulty variant: nothing is added nor written)
MarkProcessedBuggy(x) ==
    /\ processed' = processed
    /\ file' = file
    /\ tsFile' = tsFile
MarkProcessed(x) ==
    /\ processed' = SetAdd(processed, x)
    /\ file' = Stringify(SetAdd(processed, x))
    /\ tsFile' = IF BlockTime(x) # 0 THEN BlockTime(x) ELSE tsFile

\* ---- the process ---------------------------------------------------------
Up == phase \notin {"down", "threw"}

\* The process ends: memory and the invocations in progress are gone.
Die(how) ==
    /\ phase' = how
    /\ task' = [t \in Tasks |-> IdleTask]
    /\ running' = 0
    /\ processed' = << >>
    /\ lastFeed' = NoFeed
    /\ prev' = Range(processed)

\* The process is killed while the event loop waits or between two statements.
Crash ==
    /\ Up
    /\ restarts < MaxRestarts
    /\ Die("down")
    /\ UNCHANGED << file, tsFile, announced, polls, restarts >>

\* The item markProcessed is about to be called for by invocation t, 0 if none.
Marking(t) ==
    IF running # t THEN 0
    ELSE IF task[t].pc = "mark" THEN task[t].cur
    ELSE IF /\ task[t].pc = "loop"
            /\ task[t].todo # << >>
            /\ Head(task[t].todo) \notin Range(processed)
            /\ ~HasTokenInfo(Head(task[t].todo))
         THEN Head(task[t].todo)
    ELSE 0

\* The process is killed inside the writeFileSync of line 166.
CrashInWrite(t) ==
    /\ Up
    /\ restarts < MaxRestarts
    /\ Marking(t) # 0
    /\ file' \in TornWrites(SetAdd(processed, Marking(t)))
    /\ Die("down")
    /\ UNCHANGED << tsFile, announced, polls, restarts >>

\* Lines 27-34 and 222-224: the set is loaded, then the first poll starts.
Restart ==
    /\ ~Up
    /\ restarts < MaxRestarts
    /\ polls < MaxPolls
    /\ processed' = LoadProcessed(file)
    /\ phase' = "boot"
    /\ task' = [t \in Tasks |-> IF t = 1 THEN FetchingTask ELSE IdleTask]
    /\ polls' = polls + 1
    /\ restarts' = restarts + 1
    /\ UNCHANGED << file, tsFile, running, announced, lastFeed, prev >>

\* Line 225: setInterval calls poll() whenever the interval has elapsed and the
\* event loop is free; it does not look at the invocations in progress.  An
\* await lasts up to its timeout (5 to 10 s) or its backoff, so that a tick can
\* fall at any await of a running cycle.
Tick ==
    /\ phase = "timer"
    /\ running = 0
    /\ polls < MaxPolls
    /\ \E t \in Tasks :
        /\ ~Busy(t)
        /\ \A u \in Tasks : u < t => Busy(u)
        /\ task' = [task EXCEPT ![t] = FetchingTask]
    /\ polls' = polls + 1
    /\ UNCHANGED << processed, file, tsFile, phase, running, announced, lastFeed,
                    restarts, prev >>

\* An exception leaves processTxn: the promise of poll() rejects.  The first
\* poll is awaited by the start-up function, which then never sets the timer:
\* the process ends.  A rejected timer poll is an unhandled rejection, which
\* ends the process or only this cycle, depending on the Node version.
Reject(t) ==
    \/ /\ Die("threw")
       /\ UNCHANGED << file, tsFile, announced, polls, restarts >>
    \/ /\ phase = "timer"
       /\ task' = [task EXCEPT ![t] = IdleTask]
       /\ running' = 0
       /\ UNCHANGED << processed, file, tsFile, phase, announced, lastFeed, polls,
                       restarts, prev >>

\* ---- poll() --------------------------------------------------------------
\* Lines 214-215: the feed answers.
FetchReturn(t) ==
    /\ running = 0
    /\ task[t].pc = "fetch"
    /\ \E resp \in FeedResponses :
        /\ lastFeed' = IF resp.kind = "ok" THEN [ok |-> TRUE, list |-> resp.list] ELSE NoFeed
        /\ IF HasCooldown(resp)
           THEN /\ task' = [task EXCEPT ![t].pc = "cooldown", ![t].feed = resp.kind,
                                        ![t].slept = COOLDOWN_MS]
                /\ running' = 0
           ELSE /\ task' = [task EXCEPT ![t].pc = "loop",
                                        ![t].feed = resp.kind,
                                        ![t].fetched = FetchTxns(resp),
                                        ![t].same = resp.kind = "ok" /\ lastFeed.ok
                                                        /\ lastFeed.list = resp.list,
                                        ![t].todo = LoopOrder(FetchTxns(resp))]
                /\ running' = t
    /\ UNCHANGED << processed, file, tsFile, phase, announced, polls, restarts, prev >>

\* Lines 109 and 113: the cooldown is over, fetchTxns returns [].
CooldownDone(t) ==
    /\ running = 0
    /\ task[t].pc = "cooldown"
    /\ task' = [task EXCEPT ![t].pc = "loop"]
    /\ running' = t
    /\ UNCHANGED << processed, file, tsFile, phase, announced, lastFeed, polls,
                    restarts, prev >>

\* Lines 215-218 and 222-225: the loop is over, poll() returns; after the first
\* poll the timer is set.
PollDone(t) ==
    /\ running = t
    /\ task[t].pc = "loop"
    /\ task[t].todo = << >>
    /\ task' = [task EXCEPT ![t] = IdleTask]
    /\ running' = 0
    /\ phase' = "timer"
    /\ UNCHANGED << processed, file, tsFile, announced, lastFeed, polls, restarts,
                    prev >>

\* Line 175: the item is in the set, processTxn returns.
SkipSeen(t) ==
    /\ running = t
    /\ task[t].pc = "loop"
    /\ task[t].todo # << >>
    /\ Head(task[t].todo) \in Range(processed)
    /\ task' = [task EXCEPT ![t].todo = Tail(task[t].todo)]
    /\ UNCHANGED << processed, file, tsFile, phase, running, announced, lastFeed,
                    polls, restarts, prev >>

\* Lines 176-179: no tokenInfo, the item is marked and processTxn returns.
SkipNoToken(t) ==
    /\ running = t
    /\ task[t].pc = "loop"
    /\ task[t].todo # << >>
    /\ Head(task[t].todo) \notin Range(processed)
    /\ ~HasTokenInfo(Head(task[t].todo))
    /\ MarkProcessed(Head(task[t].todo))
    /\ task' = [task EXCEPT ![t].todo = Tail(task[t].todo)]
    /\ UNCHANGED << phase, running, announced, lastFeed, polls, restarts, prev >>

\* Lines 181-188: enrichment starts.  A uri that new URL() rejects makes
\* fetchMetadata throw before any request; processTxn catches it and goes on to
\* the identity lookup.
StartItem(t) ==
    /\ running = t
    /\ task[t].pc = "loop"
    /\ task[t].todo # << >>
    /\ Head(task[t].todo) \notin Range(processed)
    /\ HasTokenInfo(Head(task[t].todo))
    /\ LET x == Head(task[t].todo) IN
        task' = [task EXCEPT ![t].cur = x,
                             ![t].todo = Tail(task[t].todo),
                             ![t].pc = IF HasValidUri(x) THEN "meta" ELSE "creator",
                             ![t].calls = IF HasValidUri(x) THEN {"meta"} ELSE {"creator"}]
    /\ running' = 0
    /\ UNCHANGED << processed, file, tsFile, phase, announced, lastFeed, polls,
                    restarts, prev >>

\* ---- processTxn ----------------------------------------------------------
\* Line 209: sendWithImage(imageUrl, caption) up to its first await.  Line 71:
\* without image the text post is sent at once.
FirstPostBuggy(image) == "mark"   \* faulty variant: the call is not awaited
FirstPost(image) == IF image THEN "photo" ELSE "text"

Deliver(tk, info, ethos) ==
    [tk EXCEPT !.info = info,
               !.ethos = ethos,
               !.caption = Caption(tk.cur, info, ethos),
               !.attempts = << >>,
               !.slept = 0,
               !.pc = FirstPost(tk.image),
               !.calls = @ \cup {FirstPost(tk.image)}]

\* Lines 188-195: the metadata lookup is over.
MetaReturn(t) ==
    /\ running = 0
    /\ task[t].pc = "meta"
    /\ \E firstUp \in 0 .. GATEWAYS, rawUp \in BOOLEAN, body \in MetaBodies :
        LET meta == MetaOf(FetchMetadata(firstUp, rawUp, body)) IN
        IF ImageThrows(meta)
        THEN Reject(t)
        ELSE /\ task' = [task EXCEPT ![t].image = ImageUrl(meta),
                                     ![t].pc = "creator",
                                     ![t].calls = @ \cup {"creator"}]
             /\ UNCHANGED << processed, file, tsFile, phase, running, announced,
                             lastFeed, polls, restarts, prev >>

\* A faulty variant: the reputation lookup is made whatever the handle.
NeedsEthosBuggy(info) == TRUE

\* Line 197: the reputation lookup is made for a non-empty handle only.
NeedsEthos(info) == info.username # ""

\* Lines 194-197: the identity lookup is over.
CreatorReturn(t) ==
    /\ running = 0
    /\ task[t].pc = "creator"
    /\ \E resp \in CreatorResponses :
        LET info == FetchCreatorInfo(resp) IN
        task' = [task EXCEPT ![t] =
                    IF NeedsEthos(info)
                    THEN [@ EXCEPT !.info = info, !.pc = "ethos", !.calls = @ \cup {"ethos"}]
                    ELSE Deliver(@, info, 0)]
    /\ UNCHANGED << processed, file, tsFile, phase, running, announced, lastFeed,
                    polls, restarts, prev >>

\* Lines 197-209: the reputation lookup is over.
EthosReturn(t) ==
    /\ running = 0
    /\ task[t].pc = "ethos"
    /\ \E resp \in EthosResponses :
        task' = [task EXCEPT ![t] = Deliver(@, @.info, FetchEthos(resp))]
    /\ UNCHANGED << processed, file, tsFile, phase, running, announced, lastFeed,
                    polls, restarts, prev >>

\* ---- sendWithImage / sendMessage -----------------------------------------
\* The chat shows one more post about item x (counted up to two).
Announce(x) == [announced EXCEPT ![x] = IF @ < 2 THEN @ + 1 ELSE @]

RateLimits(att) == Cardinality({ i \in 1 .. Len(att) : IsRateLimited(att[i].resp) })

\* Line 91: the caption handed to sendMessage by the fallback
FallbackCaption(caption) == caption

\* The answer to a post is recorded with the operation, the text sent and the
\* sleep that preceded the post.
Attempt(tk, op, resp) ==
    [op |-> op, resp |-> resp, cap |-> tk.caption, after |-> tk.slept]

\* Lines 80-92: the answer to the photo post.
PhotoReturn(t) ==
    /\ running = 0
    /\ task[t].pc = "photo"
    /\ \E resp \in PostResponses :
        LET tk   == task[t]
            next == AfterPhoto(resp) IN
        /\ IsRateLimited(resp) => RateLimits(tk.attempts) < MaxRetry
        /\ task' = [task EXCEPT ![t] =
                [tk EXCEPT !.attempts = Append(@, Attempt(tk, "photo", resp)),
                           !.pc = next,
                           !.slept = IF next = "photoSleep" THEN BackoffMs(resp) ELSE 0,
                           !.caption = IF next = "text" THEN FallbackCaption(@) ELSE @,
                           !.calls = IF next = "text" THEN @ \cup {"text"} ELSE @,
                           !.sent = IF resp.code = 200 THEN Append(@, tk.cur) ELSE @]]
        /\ announced' = IF resp.code = 200 THEN Announce(tk.cur) ELSE announced
        /\ running' = IF next = "mark" THEN t ELSE 0
    /\ UNCHANGED << processed, file, tsFile, phase, lastFeed, polls, restarts, prev >>

\* Lines 56-67: the answer to the text post.
TextReturn(t) ==
    /\ running = 0
    /\ task[t].pc = "text"
    /\ \E resp \in PostResponses :
        LET tk   == task[t]
            next == AfterText(resp) IN
        /\ IsRateLimited(resp) => RateLimits(tk.attempts) < MaxRetry
        /\ task' = [task EXCEPT ![t] =
                [tk EXCEPT !.attempts = Append(@, Attempt(tk, "text", resp)),
                           !.pc = next,
                           !.slept = IF next = "textSleep" THEN BackoffMs(resp) ELSE 0,
                           !.failed = resp.code # 200 /\ next = "mark",
                           !.sent = IF resp.code = 200 THEN Append(@, tk.cur) ELSE @]]
        /\ announced' = IF resp.code = 200 THEN Announce(tk.cur) ELSE announced
        /\ running' = IF next = "mark" THEN t ELSE 0
    /\ UNCHANGED << processed, file, tsFile, phase, lastFeed, polls, restarts, prev >>

\* A faulty variant: the promise of the backoff never settles, the post is not
\* repeated.
SleepDoneBuggy(t) ==
    /\ running = 0
    /\ task[t].pc \in {"photoSleep", "textSleep"}
    /\ UNCHANGED vars

\* Lines 63-64 and 87-88: the backoff is over, the same function is called
\* again with the same arguments.
SleepDone(t) ==
    /\ running = 0
    /\ task[t].pc \in {"photoSleep", "textSleep"}
    /\ task' = [task EXCEPT ![t].pc = IF @ = "photoSleep" THEN "photo" ELSE "text"]
    /\ UNCHANGED << processed, file, tsFile, phase, running, announced, lastFeed,
                    polls, restarts, prev >>

\* Line 210: sendWithImage has returned, the item is marked; processTxn returns.
Mark(t) ==
    /\ running = t
    /\ task[t].pc = "mark"
    /\ MarkProcessed(task[t].cur)
    /\ task' = [task EXCEPT ![t] =
            [IdleTask EXCEPT !.pc = "loop", !.feed = task[t].feed,
                             !.fetched = task[t].fetched,
                             !.same = task[t].same, !.todo = task[t].todo,
                             !.sent = task[t].sent]]
    /\ UNCHANGED << phase, running, announced, lastFeed, polls, restarts, prev >>

Next ==
    \/ Tick
    \/ Crash
    \/ Restart
    \/ \E t \in Tasks :
        \/ FetchReturn(t)
        \/ CooldownDone(t)
        \/ PollDone(t)
        \/ SkipSeen(t)
        \/ SkipNoToken(t)
        \/ StartItem(t)
        \/ MetaReturn(t)
        \/ CreatorReturn(t)
        \/ EthosReturn(t)
        \/ PhotoReturn(t)
        \/ TextReturn(t)
        \/ SleepDone(t)
        \/ Mark(t)
        \/ CrashInWrite(t)

Spec == Init /\ [][Next]_vars

\* ---- one cycle -----------------------------------------------------------
\* A single poll cycle, taken alone: the first poll of a fresh installation, or
\* a timer cycle of a process whose set holds any identifiers.  The other
\* invocations that setInterval may have started show only through the
\* identifiers they mark while this cycle awaits.
RECURSIVE Orderings(_)
Orderings(S) ==
    IF S = {} THEN { << >> }
    ELSE UNION { { Append(s, x) : s \in Orderings(S \ {x}) } : x \in S }

StartFiles == { NoFile } \cup { Stringify(s) : s \in UNION { Orderings(S) : S \in SUBSET Ids } }

InitCycle ==
    /\ file \in StartFiles
    /\ processed = LoadProcessed(file)
    /\ phase \in {"boot", "timer"}
    /\ phase = "boot" => file = NoFile
    /\ tsFile = 0
    /\ task = [t \in Tasks |-> IF t = 1 THEN FetchingTask ELSE IdleTask]
    /\ running = 0
    /\ announced = [x \in Ids |-> 0]
    /\ lastFeed = NoFeed
    /\ polls = 1
    /\ restarts = 0
    /\ prev = {}

\* Lines 164-170, called by another invocation of poll() between two steps of
\* this one.
ConcurrentMark ==
    /\ phase = "timer"
    /\ running = 0
    /\ \E t \in Tasks : Busy(t)
    /\ \E x \in Ids \ Range(processed) : MarkProcessed(x)
    /\ UNCHANGED << phase, task, running, announced, lastFeed, polls, restarts, prev >>

NextCycle ==
    \/ ConcurrentMark
    \/ \E t \in Tasks :
        \/ FetchReturn(t)
        \/ CooldownDone(t)
        \/ PollDone(t)
        \/ SkipSeen(t)
        \/ SkipNoToken(t)
        \/ StartItem(t)
        \/ MetaReturn(t)
        \/ CreatorReturn(t)
        \/ EthosReturn(t)
        \/ PhotoReturn(t)
        \/ TextReturn(t)
        \/ SleepDone(t)
        \/ Mark(t)

SpecCycle == InitCycle /\ [][NextCycle]_vars

\* ---- one cycle, its progress ---------------------------------------------
\* Lines 61-64 and 85-88: nothing bounds the number of rate-limit answers to
\* one post.  Those after the first MaxRetry are backed off and retried like
\* the others; the list of attempts does not record them.
RateLimitedAgain(t) ==
    /\ running = 0
    /\ task[t].pc \in {"photo", "text"}
    /\ RateLimits(task[t].attempts) >= MaxRetry
    /\ \E resp \in PostResponses :
        /\ IsRateLimited(resp)
        /\ task' = [task EXCEPT
                ![t].pc = IF @ = "photo" THEN AfterPhoto(resp) ELSE AfterText(resp),
                ![t].slept = BackoffMs(resp)]
    /\ UNCHANGED << processed, file, tsFile, phase, running, announced, lastFeed,
                    polls, restarts, prev >>

\* A step of invocation t of poll().
CycleStep(t) ==
    \/ FetchReturn(t)
    \/ CooldownDone(t)
    \/ PollDone(t)
    \/ SkipSeen(t)
    \/ SkipNoToken(t)
    \/ StartItem(t)
    \/ MetaReturn(t)
    \/ CreatorReturn(t)
    \/ EthosReturn(t)
    \/ PhotoReturn(t)
    \/ TextReturn(t)
    \/ SleepDone(t)
    \/ Mark(t)

NextLive == \E t \in Tasks : CycleStep(t) \/ RateLimitedAgain(t)

\* The event loop serves every answer and every timer that is due: an
\* invocation that can take a step takes one.  The answers themselves are the
\* services' choice.
SpecLive ==
    /\ InitCycle
    /\ [][NextLive]_vars
    /\ \A t \in Tasks : WF_vars(CycleStep(t))

\* ---- properties ----------------------------------------------------------
\* C1: every item is announced at most once over the whole run, restarts
\* included: the chat never shows a second successful post about an item.
AnnouncedAtMostOnce == \A x \in Ids : announced[x] <= 1

\* C2: poll cycles never overlap: at most one invocation of poll() is in
\* progress at any time.
CyclesNeverOverlap == Cardinality({ t \in Tasks : Busy(t) }) <= 1

\* C3: an identifier is in the dedup set only if its item was delivered or had
\* no tokenInfo: an item whose delivery did not succeed is never marked seen.
SeenOnlyIfDeliveredOrSkipped ==
    \A x \in Range(processed) : ~HasTokenInfo(x) \/ announced[x] >= 1

\* C4: when the process dies at any point of markProcessed, the set that the
\* next start loads from processed.json holds every identifier marked before
\* that call.
CrashInMarkKeepsPriorMarks ==
    [][\A t \in Tasks :
        (Marking(t) # 0 /\ phase' = "down")
            => Range(processed) \subseteq Range(LoadProcessed(file'))]_vars

\* C5: after a restart, every identifier for which markProcessed had returned
\* is in the rebuilt set, and no invocation enriches or delivers its item.
MarksSurviveRestart ==
    (restarts > 0 /\ Up) =>
        /\ prev \subseteq Range(processed)
        /\ \A t \in Tasks : task[t].cur \notin prev

\* C6: a cycle that is given the same list as the cycle before it performs no
\* delivery.
SameFeedDeliversNothing == \A t \in Tasks : task[t].same => task[t].sent = << >>

Pos(s, x) == CHOOSE i \in 1 .. Len(s) : s[i] = x

\* C7: the deliveries of a cycle are made oldest-first: of two items delivered
\* by a cycle, the one delivered first stands later in the fetched list.
DeliveriesOldestFirst ==
    \A t \in Tasks :
        LET sent == task[t].sent
            feed == task[t].fetched IN
        \A i, j \in 1 .. Len(sent) :
            i < j => Pos(feed, sent[i]) > Pos(feed, sent[j])

TwoDelivered == \E t \in Tasks : Len(task[t].sent) = 2

\* The post that sleeping or posting invocation tk is about to repeat or make.
PendingOp(tk) ==
    IF tk.pc \in {"photo", "photoSleep"} THEN "photo"
    ELSE IF tk.pc \in {"text", "textSleep"} THEN "text"
    ELSE "none"

RateLimitedAt(a, i) == a[i].resp.code = 429 /\ a[i].resp.retry_after >= 1

\* C8: a post answered with code 429 and retry_after N is followed by the same
\* operation with the same caption after a sleep of at least (N + 1) seconds,
\* and is not reported as a failure.
RateLimitRetry ==
    \A t \in Tasks :
        LET tk == task[t]
            a  == tk.attempts IN
        \A i \in 1 .. Len(a) :
            RateLimitedAt(a, i) =>
                IF i < Len(a)
                THEN /\ a[i + 1].op = a[i].op
                     /\ a[i + 1].cap = a[i].cap
                     /\ a[i + 1].after >= (a[i].resp.retry_after + 1) * 1000
                ELSE /\ PendingOp(tk) = a[i].op
                     /\ tk.caption = a[i].cap
                     /\ tk.slept >= (a[i].resp.retry_after + 1) * 1000
                     /\ ~tk.failed

RetriedAfterRateLimit ==
    \E t \in Tasks :
        LET a == task[t].attempts IN
        /\ Len(a) >= 2
        /\ RateLimitedAt(a, Len(a) - 1)
        /\ a[Len(a)].resp.code = 200

FailedAt(a, i) == a[i].resp.code # 200 /\ ~RateLimitedAt(a, i)

\* C9: a photo post that fails for another reason than rate limiting is
\* followed by text posts of the same caption only, of which exactly one is
\* answered otherwise than by a rate limit; a text post that fails for another
\* reason than rate limiting ends the call, the message is dropped.
FallbackOnce ==
    \A t \in Tasks :
        LET tk == task[t]
            a  == tk.attempts IN
        \A i \in 1 .. Len(a) :
            /\ (a[i].op = "photo" /\ FailedAt(a, i)) =>
                /\ \A j \in i + 1 .. Len(a) : a[j].op = "text" /\ a[j].cap = a[i].cap
                /\ IF tk.pc = "mark"
                   THEN Cardinality({ j \in i + 1 .. Len(a) : ~RateLimitedAt(a, j) }) = 1
                   ELSE /\ PendingOp(tk) = "text"
                        /\ tk.caption = a[i].cap
                        /\ \A j \in i + 1 .. Len(a) : RateLimitedAt(a, j)
            /\ (a[i].op = "text" /\ FailedAt(a, i)) =>
                /\ i = Len(a)
                /\ tk.pc = "mark"
                /\ tk.failed

FellBackToText ==
    \E t \in Tasks :
        LET a == task[t].attempts IN
        /\ task[t].pc = "mark"
        /\ Len(a) >= 2
        /\ a[1].op = "photo" /\ FailedAt(a, 1)
        /\ a[Len(a)].op = "text" /\ a[Len(a)].resp.code = 200

\* C10: processing an unseen item without tokenInfo adds its identifier to the
\* set, starts no network call (no await is entered, no call is recorded) and
\* posts nothing.
MissingDataSkip ==
    [][\A t \in Tasks :
        (Marking(t) # 0 /\ task[t].pc = "loop" /\ phase' # "down") =>
            /\ Marking(t) \in Range(processed')
            /\ task'[t].pc = "loop"
            /\ task'[t].calls = {}
            /\ running' = t
            /\ announced' = announced]_vars

SkippedWithoutToken ==
    \E t \in Tasks :
        /\ phase = "boot"
        /\ task[t].pc = "loop"
        /\ 2 \in Range(task[t].fetched) \ Range(task[t].todo)
        /\ 2 \in Range(processed)
        /\ task[t].calls = {}

\* The item of invocation tk is past its identity lookup.
PastCreator(tk) ==
    tk.pc \in {"ethos", "photo", "photoSleep", "text", "textSleep", "mark"}

\* C11: when the identity lookup yields an empty handle (also when the lookup
\* fails), the reputation lookup is not made for that item and the score in
\* the message is 0.
EmptyHandleSkipsReputation ==
    \A t \in Tasks :
        LET tk == task[t] IN
        (PastCreator(tk) /\ tk.info.username = "") =>
            /\ "ethos" \notin tk.calls
            /\ tk.pc # "ethos"
            /\ tk.ethos = 0
            /\ tk.caption.ethos = 0

DeliveredWithEmptyHandle ==
    \E t \in Tasks :
        /\ task[t].pc = "mark"
        /\ task[t].info.username = ""
        /\ "creator" \in task[t].calls
        /\ task[t].caption.ethos = 0

\* C12: enrichment never fails: whatever the metadata, identity and
\* reputation lookups answer, an item with tokenInfo goes from the metadata
\* lookup to the identity lookup and from there to the delivery step; no
\* exception escapes processTxn (only a kill of the process stops the item).
EnrichmentNeverFails ==
    [][\A t \in Tasks :
        LET before == task[t].pc
            after  == task'[t].pc IN
        phase' # "down" =>
            /\ before = "meta" => after \in {"meta", "creator"}
            /\ before = "creator" => after \in {"creator", "ethos", "photo", "text"}
            /\ before = "ethos" => after \in {"ethos", "photo", "text"}]_vars

\* Invocation t is inside a call of sendWithImage / the call has returned.
Delivering(t) == task[t].pc \in {"photo", "photoSleep", "text", "textSleep"}
Returned(t) == task[t].pc = "mark"

\* C13 as stated: every call of sendWithImage eventually returns, whatever
\* the chat endpoint answers.
DeliverAlwaysReturns == \A t \in Tasks : Delivering(t) ~> Returned(t)

\* C13: a call of sendWithImage that the chat endpoint rate-limits finitely
\* often only eventually returns; once it has returned it makes no further
\* post, the next step of the invocation is the marking of the item.
DeliverReturnsUnlessRateLimitedForever ==
    /\ \A t \in Tasks :
        <>[][~RateLimitedAgain(t)]_vars => (Delivering(t) ~> Returned(t))
    /\ [][\A t \in Tasks : Returned(t) => task'[t].pc \in {"mark", "loop"}]_vars

ReturnedAfterRateLimit ==
    \E t \in Tasks :
        /\ Returned(t)
        /\ RateLimits(task[t].attempts) >= 1

\* C14: sendWithImage never raises to processTxn: whatever the answer to the
\* photo post and to the text post (rate limit, other error code, network
\* error), the invocation stays in the call or returns from it to the mark
\* step, and the step after the return puts the item in the set.
DeliverNeverRaises ==
    [][\A t \in Tasks :
        /\ Delivering(t) =>
                task'[t].pc \in {"photo", "photoSleep", "text", "textSleep", "mark"}
        /\ (Returned(t) /\ task'[t] # task[t]) =>
                /\ task[t].cur \in Range(processed')
                /\ task'[t].pc = "loop"]_vars

ReturnedAfterBothPostsFailed ==
    \E t \in Tasks :
        LET a == task[t].attempts IN
        /\ task[t].pc = "loop"
        /\ task[t].fetched # << >>
        /\ task[t].sent = << >>
        /\ \E x \in Range(task[t].fetched) \ Range(task[t].todo) :
            HasTokenInfo(x) /\ x \in Range(processed) /\ announced[x] = 0
        /\ phase = "boot"

\* The feed request of invocation tk has failed.
FailedFetch(tk) == tk.feed \in {"invalid", "5xx", "error"}

\* C15: fetchTxns never throws and returns the empty list on any failure
\* (network error, HTTP error status, body without array); after a 5xx it has
\* slept the cooldown before it returns, after any other failure it has not
\* slept; the cycle then processes no item, delivers nothing, marks nothing
\* and ends normally, the timer stays set.
FetchFailureIsEmptyCycle ==
    /\ [](\A t \in Tasks :
            LET tk == task[t] IN
            FailedFetch(tk) =>
                /\ tk.pc \in {"cooldown", "loop"}
                /\ tk.pc = "cooldown" => tk.feed = "5xx"
                /\ tk.slept = IF tk.feed = "5xx" THEN COOLDOWN_MS ELSE 0
                /\ tk.fetched = << >> /\ tk.todo = << >>
                /\ tk.cur = 0 /\ tk.sent = << >>)
    /\ [][\A t \in Tasks :
            (FailedFetch(task[t]) /\ task'[t] # task[t]) =>
                /\ processed' = processed
                /\ announced' = announced
                /\ IF task[t].pc = "cooldown"
                   THEN task'[t].pc = "loop"
                   ELSE task'[t].pc = "idle" /\ phase' = "timer"]_vars

ReturnedEmptyAfterCooldown ==
    \E t \in Tasks :
        /\ task[t].feed = "5xx"
        /\ task[t].pc = "loop"
        /\ task[t].slept = COOLDOWN_MS

\* C16: past the configuration check no condition is fatal: whatever the
\* feed, the metadata, identity and reputation lookups and the chat endpoint
\* answer, no poll cycle ends with an uncaught error, so the process is never
\* ended by one.
NoFatalCondition == phase # "threw"

\* C17: duplicate announcements are bounded by the kills of the process: the
\* number of items announced more than once is at most the number of
\* restarts, so a run without restart announces no item twice.
DuplicatesBoundedByRestarts ==
    Cardinality({ x \in Ids : announced[x] >= 2 }) <= restarts

\* C18: an item with tokenInfo is marked only by the step that follows the
\* return of its own delivery: when the invocation is at the mark step, the
\* posts made were all about the item in hand and the last one was answered
\* otherwise than by a rate limit; no step of the item before that changes the
\* set, and the next item of the list is taken only when no item is in hand.
MarkFollowsOwnDelivery ==
    /\ [](\A t \in Tasks :
            LET tk == task[t]
                a  == tk.attempts IN
            /\ Returned(t) =>
                    /\ a # << >>
                    /\ ~IsRateLimited(a[Len(a)].resp)
                    /\ \A i \in 1 .. Len(a) : a[i].cap.id = tk.cur
            /\ tk.pc = "loop" => tk.cur = 0 /\ tk.attempts = << >>
            /\ tk.cur # 0 => tk.cur \notin Range(tk.todo))
    /\ [][\A t \in Tasks :
            (task[t].cur # 0 /\ task'[t] # task[t] /\ task'[t].pc # "idle") =>
                /\ task'[t].todo = task[t].todo
                /\ IF Returned(t)
                   THEN processed' = SetAdd(processed, task[t].cur)
                   ELSE processed' = processed /\ task'[t].cur = task[t].cur]_vars

SecondItemAfterFirstMarked ==
    \E t \in Tasks :
        /\ phase = "boot"
        /\ Delivering(t)
        /\ Len(task[t].sent) = 1
        /\ task[t].sent[1] \in Range(processed)
        /\ task[t].cur \notin Range(processed)

\* s is an initial part of r.
IsPrefix(s, r) == Len(s) <= Len(r) /\ SubSeq(r, 1, Len(s)) = s

\* C19: while the process runs without a kill, the in-memory set only grows,
\* processed.json is complete and holds identifiers of the in-memory set only,
\* and every step that adds an identifier leaves the file equal to the set,
\* also when the marks of several invocations interleave.
StoreConsistent ==
    /\ [](Up /\ file.exists =>
            file.closed /\ Range(file.ids) \subseteq Range(processed))
    /\ [][Up /\ Up' =>
            /\ IsPrefix(processed, processed')
            /\ processed' # processed => file' = Stringify(processed')]_vars

TwoMarksPersisted ==
    /\ phase = "boot"
    /\ Len(processed) >= 2
    /\ file = Stringify(processed)

\* C20: every item of the fetched list is in the set by the end of its cycle:
\* when an invocation of poll() ends otherwise than by a kill of the process,
\* all the identifiers it fetched have been marked.
CycleMarksEveryItem ==
    [][\A t \in Tasks :
        (Busy(t) /\ task'[t].pc = "idle" /\ phase' # "down") =>
            Range(task[t].fetched) \subseteq Range(processed)]_vars

====
